---- MODULE Spec2Model ----
(***************************************************************************)
(* Continued-fraction arithmetic of pyContFrac                              *)
(* (src/src/contfrac/continued_fractions.py).                               *)
(*                                                                          *)
(* A coefficient stream is a finite sequence of integers; a Fraction is a   *)
(* pair <<n, d>> in lowest terms with d > 0.  The two transform generators  *)
(* are modelled step by step (one action per branch of their loop); handle  *)
(* level methods are actions that build the engine state or the outcome.    *)
(***************************************************************************)
EXTENDS Integers, Sequences, FiniteSets, TLC

VARIABLES inp, euc, hom, bih, zip, res, pc

vars == <<inp, euc, hom, bih, zip, res, pc>>

(***************************************************************************)
(* Bounds of the explored inputs.                                           *)
(***************************************************************************)
MaxCoef == 3        \* homographic matrix entries range over -MaxCoef..MaxCoef
MaxNum  == 4        \* numerators of input rationals range over -MaxNum..MaxNum
MaxDen  == 3        \* denominators of input rationals range over 1..MaxDen

(***************************************************************************)
(* Integer helpers.                                                         *)
(***************************************************************************)
Abs(n) == IF n < 0 THEN -n ELSE n

Min(m, n) == IF m <= n THEN m ELSE n

Max(m, n) == IF m >= n THEN m ELSE n

RECURSIVE GCD(_, _)
GCD(m, n) == IF n = 0 THEN Abs(m) ELSE GCD(n, Abs(m) % Abs(n))

\* Python's n // d for d > 0 (floor division).
FloorDiv(n, d) == IF n >= 0 THEN n \div d ELSE -((-n + d - 1) \div d)

\* math.trunc(a / c) for c # 0: the quotient rounded toward zero.
Trunc(a, c) ==
    IF (a >= 0) = (c > 0) THEN Abs(a) \div Abs(c) ELSE -(Abs(a) \div Abs(c))

(***************************************************************************)
(* fractions.Fraction: lowest terms, positive denominator.                  *)
(***************************************************************************)
Fraction(n, d) ==
    LET g == GCD(n, d)
        s == IF d < 0 THEN -1 ELSE 1
    IN  <<s * (n \div g), s * (d \div g)>>

FracAdd(x, y) == Fraction(x[1] * y[2] + y[1] * x[2], x[2] * y[2])

FracSub(x, y) == Fraction(x[1] * y[2] - y[1] * x[2], x[2] * y[2])

FracMul(x, y) == Fraction(x[1] * y[1], x[2] * y[2])

\* x / y for y # 0
FracDiv(x, y) == Fraction(x[1] * y[2], x[2] * y[1])

FracLt(x, y) == x[1] * y[2] < y[1] * x[2]

FracNeg(x) == <<-x[1], x[2]>>

\* The input rationals of the explored runs.
Rats == {Fraction(n, d) : n \in -MaxNum..MaxNum, d \in 1..MaxDen}

(***************************************************************************)
(* _euclid: the coefficient stream of a Fraction.                           *)
(***************************************************************************)
RECURSIVE Euclid(_)
Euclid(x) ==
    LET n == x[1]
        d == x[2]
        q == FloorDiv(n, d)
        r == n - q * d
    IN  IF r = 0 THEN <<q>> ELSE <<q>> \o Euclid(<<d, r>>)

\* one generator instance of _euclid: the pair (n, d), the coefficients
\* yielded so far, and whether the loop has been left
EStart(x) == [n |-> x[1], d |-> x[2], out |-> <<>>, pc |-> "loop"]

EYieldStep(s) ==
    LET q == FloorDiv(s.n, s.d)
        r == s.n - q * s.d
    IN  IF r = 0
        THEN [s EXCEPT !.out = Append(s.out, q), !.pc = "done"]
        ELSE [s EXCEPT !.out = Append(s.out, q), !.n = s.d, !.d = r]

(***************************************************************************)
(* as_rational's cut-off  abs(conv - best_conv) < 1e-14.                    *)
(* The double 1e-14 lies below 10^-14 by less than 10^-30, so for a         *)
(* difference num/den the test is  den > num * 10^14.  The comparison is    *)
(* done by long division because 10^14 exceeds the integer range.           *)
(***************************************************************************)
EpsExp == 14                       \* 1e-14 = 10^-EpsExp

IntMax == 2^30 + (2^30 - 1)

RECURSIVE Digits(_)
Digits(n) == IF n < 10 THEN <<n>> ELSE Digits(n \div 10) \o <<n % 10>>

RECURSIVE Zeros(_)
Zeros(k) == IF k = 0 THEN <<>> ELSE <<0>> \o Zeros(k - 1)

\* floor(N / k), capped at IntMax, N given by its decimal digits
RECURSIVE LongDiv(_, _, _, _)
LongDiv(ds, k, r, q) ==
    IF ds = <<>> THEN q
    ELSE LET r1 == r * 10 + Head(ds)
             q1 == IF q > (IntMax - 9) \div 10 THEN IntMax
                   ELSE q * 10 + (r1 \div k)
         IN  LongDiv(Tail(ds), k, r1 % k, q1)

AbsDiffLtEps(x, y) ==
    LET num == Abs(x[1] * y[2] - y[1] * x[2])
        lo  == Min(x[2], y[2])
        hi  == Max(x[2], y[2])
    IN  IF x = y THEN TRUE
        ELSE IF hi <= 10^(EpsExp \div 2) THEN FALSE   \* lo * hi <= 10^14
        ELSE hi > LongDiv(Digits(num) \o Zeros(EpsExp), lo, 0, 0)

(***************************************************************************)
(* _convergents followed by as_rational's loop.  The outcome is either the  *)
(* returned Fraction or the exception that leaves as_rational.              *)
(***************************************************************************)
Ok(v) == [tag |-> "ok", val |-> v]

Raise(e) == [tag |-> e]

None == <<>>

\* a generator that the run does not use
Idle == [pc |-> "idle"]

RECURSIVE ConvergentsLoop(_, _, _, _, _, _)
ConvergentsLoop(xs, p_km1, q_km1, p_km2, q_km2, best_conv) ==
    IF xs = <<>>
    THEN IF best_conv = None THEN Raise("OverflowError") ELSE Ok(best_conv)
    ELSE LET a_k == Head(xs)
             p_k == a_k * p_km1 + p_km2
             q_k == a_k * q_km1 + q_km2
         IN  IF q_k = 0 THEN Raise("ZeroDivisionError")
             ELSE LET conv == Fraction(p_k, q_k)
                  IN  IF best_conv # None /\ AbsDiffLtEps(conv, best_conv)
                      THEN Ok(best_conv)
                      ELSE ConvergentsLoop(Tail(xs), p_k, q_k, p_km1, q_km1,
                                           conv)

AsRational(xs) == ConvergentsLoop(xs, 1, 0, 0, 1, None)

(***************************************************************************)
(* _homographic_transform, one generator instance:                          *)
(*   x    the coefficients not yet pulled from the input stream             *)
(*   out  the coefficients yielded so far                                   *)
(*   pc   "start" before the first pull, "loop", "done" after the return    *)
(***************************************************************************)
HStart(x, a, b, c, d) ==
    [x |-> x, a |-> a, b |-> b, c |-> c, d |-> d, out |-> <<>>, pc |-> "start"]

HInLoop(s) == s.pc = "loop" \/ (s.pc = "start" /\ ~(s.c = 0 /\ s.d = 0))

\* c*d > 0 on Python's unbounded ints: decided from the signs, so that the
\* product is never formed
PosProduct(c, d) == (c > 0 /\ d > 0) \/ (c < 0 /\ d < 0)

HCanEgest(s) ==
    /\ s.c # 0 /\ s.d # 0 /\ PosProduct(s.c, s.d)
    /\ Trunc(s.a, s.c) = Trunc(s.b, s.d)
    /\ Trunc(s.b, s.d) # 0

HTerminateStep(s) == [s EXCEPT !.pc = "done"]

HEgestStep(s) ==
    LET q == Trunc(s.a, s.c)
    IN  [s EXCEPT !.out = Append(s.out, q),
                  !.a = s.c, !.b = s.d,
                  !.c = s.a - q * s.c, !.d = s.b - q * s.d,
                  !.pc = "loop"]

HIngestStep(s) ==
    LET p == Head(s.x)
    IN  [s EXCEPT !.x = Tail(s.x),
                  !.a = p * s.a + s.b, !.b = s.a,
                  !.c = p * s.c + s.d, !.d = s.c,
                  !.pc = "loop"]

HExhaustStep(s) ==
    [s EXCEPT !.out = IF s.c # 0 THEN s.out \o Euclid(Fraction(s.a, s.c))
                      ELSE s.out,
              !.pc = "done"]

\* one resumption of the generator body up to its next branch
HStep(s) ==
    IF s.pc = "start" /\ s.c = 0 /\ s.d = 0 THEN HTerminateStep(s)
    ELSE IF HCanEgest(s) THEN HEgestStep(s)
    ELSE IF s.x # <<>> THEN HIngestStep(s)
    ELSE HExhaustStep(s)

\* the whole stream of a generator over a finite input
RECURSIVE HRun(_)
HRun(s) == IF s.pc = "done" THEN s.out ELSE HRun(HStep(s))

HTerminate ==
    /\ hom.pc = "start" /\ hom.c = 0 /\ hom.d = 0
    /\ hom' = HTerminateStep(hom)
    /\ UNCHANGED <<inp, euc, bih, zip, res, pc>>

HEgest ==
    /\ HInLoop(hom) /\ HCanEgest(hom)
    /\ hom' = HEgestStep(hom)
    /\ UNCHANGED <<inp, euc, bih, zip, res, pc>>

HIngest ==
    /\ HInLoop(hom) /\ ~HCanEgest(hom) /\ hom.x # <<>>
    /\ hom' = HIngestStep(hom)
    /\ UNCHANGED <<inp, euc, bih, zip, res, pc>>

HExhaust ==
    /\ HInLoop(hom) /\ ~HCanEgest(hom) /\ hom.x = <<>>
    /\ hom' = HExhaustStep(hom)
    /\ UNCHANGED <<inp, euc, bih, zip, res, pc>>

(***************************************************************************)
(* _bihomographic_transform, one generator instance:                        *)
(*   x, y    the coefficients not yet pulled from the two input streams     *)
(*   out     the coefficients yielded so far                                *)
(*   pc      "start" before the first pull, "loop", "done" after the        *)
(*           return, "raised" after the exception of line 94                *)
(***************************************************************************)
BStart(x, y, a, b, c, d, e, f, g, h) ==
    [x |-> x, y |-> y, a |-> a, b |-> b, c |-> c, d |-> d,
     e |-> e, f |-> f, g |-> g, h |-> h,
     stop_x |-> FALSE, stop_y |-> FALSE, out |-> <<>>, pc |-> "start"]

BAllZero(s) == s.e = 0 /\ s.f = 0 /\ s.g = 0 /\ s.h = 0

\* variant: rejects only when all four coefficients are negative
BAnyNegativeAll(s) == s.e < 0 /\ s.f < 0 /\ s.g < 0 /\ s.h < 0

BAnyNegative(s) == s.e < 0 \/ s.f < 0 \/ s.g < 0 \/ s.h < 0

BInLoop(s) ==
    s.pc = "loop" \/ (s.pc = "start" /\ ~BAllZero(s) /\ ~BAnyNegative(s))

BBothStopped(s) == s.stop_x /\ s.stop_y

BCanEgest(s) ==
    /\ s.e # 0 /\ s.f # 0 /\ s.g # 0 /\ s.h # 0
    /\ Trunc(s.a, s.e) = Trunc(s.b, s.f)
    /\ Trunc(s.b, s.f) = Trunc(s.c, s.g)
    /\ Trunc(s.c, s.g) = Trunc(s.d, s.h)
    /\ Trunc(s.d, s.h) # 0

\* abs(b/f - d/h) > abs(c/g - d/h), evaluated by the code in doubles.  The
\* two sides are compared exactly after scaling by |f*g*h|.  When b/f = c/g
\* both sides are the same double.  When the sides are equal as rationals
\* but b/f # c/g, rounding decides: both outcomes are possible values.
BFirstDiffGreater(s) ==
    LET l == Abs(s.b * s.h - s.d * s.f) * Abs(s.g)
        r == Abs(s.c * s.h - s.d * s.g) * Abs(s.f)
    IN  IF l > r THEN {TRUE}
        ELSE IF l < r THEN {FALSE}
        ELSE IF s.b * s.g = s.c * s.f THEN {FALSE}
        ELSE {TRUE, FALSE}

\* the possible values of the condition of line 119
BTakesX(s) ==
    IF s.stop_y THEN {TRUE}
    ELSE IF ~s.stop_x /\ s.f # 0 /\ s.g # 0 /\ s.h # 0
         THEN BFirstDiffGreater(s)
         ELSE {FALSE}

BTerminateStep(s) == [s EXCEPT !.pc = "done"]

BRaiseStep(s) == [s EXCEPT !.pc = "raised"]

BExhaustStep(s) ==
    [s EXCEPT !.out = IF s.e # 0 THEN s.out \o Euclid(Fraction(s.a, s.e))
                      ELSE s.out,
              !.pc = "done"]

BEgestStep(s) ==
    LET r == Trunc(s.a, s.e)
    IN  [s EXCEPT !.out = Append(s.out, r),
                  !.a = s.e, !.b = s.f, !.c = s.g, !.d = s.h,
                  !.e = s.a - s.e * r, !.f = s.b - s.f * r,
                  !.g = s.c - s.g * r, !.h = s.d - s.h * r,
                  !.pc = "loop"]

BIngestXStep(s) ==
    LET p == Head(s.x)
    IN  [s EXCEPT !.x = Tail(s.x),
                  !.a = s.a * p + s.c, !.b = s.b * p + s.d,
                  !.c = s.a, !.d = s.b,
                  !.e = s.e * p + s.g, !.f = s.f * p + s.h,
                  !.g = s.e, !.h = s.f,
                  !.pc = "loop"]

BStopXStep(s) == [s EXCEPT !.stop_x = TRUE, !.pc = "loop"]

BIngestYStep(s) ==
    LET q == Head(s.y)
    IN  [s EXCEPT !.y = Tail(s.y),
                  !.a = s.a * q + s.b, !.b = s.a,
                  !.c = s.c * q + s.d, !.d = s.c,
                  !.e = s.e * q + s.f, !.f = s.e,
                  !.g = s.g * q + s.h, !.h = s.g,
                  !.pc = "loop"]

BStopYStep(s) == [s EXCEPT !.stop_y = TRUE, !.pc = "loop"]

BTerminate ==
    /\ bih.pc = "start" /\ BAllZero(bih)
    /\ bih' = BTerminateStep(bih)
    /\ UNCHANGED <<inp, euc, hom, zip, res, pc>>

BRaise ==
    /\ bih.pc = "start" /\ ~BAllZero(bih) /\ BAnyNegative(bih)
    /\ bih' = BRaiseStep(bih)
    /\ UNCHANGED <<inp, euc, hom, zip, res, pc>>

BExhaust ==
    /\ BInLoop(bih) /\ BBothStopped(bih)
    /\ bih' = BExhaustStep(bih)
    /\ UNCHANGED <<inp, euc, hom, zip, res, pc>>

BEgest ==
    /\ BInLoop(bih) /\ ~BBothStopped(bih) /\ BCanEgest(bih)
    /\ bih' = BEgestStep(bih)
    /\ UNCHANGED <<inp, euc, hom, zip, res, pc>>

BIngestX ==
    /\ BInLoop(bih) /\ ~BBothStopped(bih) /\ ~BCanEgest(bih)
    /\ TRUE \in BTakesX(bih) /\ bih.x # <<>>
    /\ bih' = BIngestXStep(bih)
    /\ UNCHANGED <<inp, euc, hom, zip, res, pc>>

BStopX ==
    /\ BInLoop(bih) /\ ~BBothStopped(bih) /\ ~BCanEgest(bih)
    /\ TRUE \in BTakesX(bih) /\ bih.x = <<>>
    /\ bih' = BStopXStep(bih)
    /\ UNCHANGED <<inp, euc, hom, zip, res, pc>>

BIngestY ==
    /\ BInLoop(bih) /\ ~BBothStopped(bih) /\ ~BCanEgest(bih)
    /\ FALSE \in BTakesX(bih) /\ ~bih.stop_y /\ bih.y # <<>>
    /\ bih' = BIngestYStep(bih)
    /\ UNCHANGED <<inp, euc, hom, zip, res, pc>>

BStopY ==
    /\ BInLoop(bih) /\ ~BBothStopped(bih) /\ ~BCanEgest(bih)
    /\ FALSE \in BTakesX(bih) /\ ~bih.stop_y /\ bih.y = <<>>
    /\ bih' = BStopYStep(bih)
    /\ UNCHANGED <<inp, euc, hom, zip, res, pc>>

(***************************************************************************)
(* ContFrac(r).homographic(a, b, c, d) traversed to its end, then           *)
(* as_rational() on the same handle.                                        *)
(***************************************************************************)
Coefs == -MaxCoef..MaxCoef

NoRes == [tag |-> "none"]

InitH ==
    /\ inp \in [a : Coefs, b : Coefs, c : Coefs, d : Coefs, r : Rats]
    /\ hom = HStart(Euclid(inp.r), inp.a, inp.b, inp.c, inp.d)
    /\ euc = Idle
    /\ bih = Idle
    /\ zip = Idle
    /\ res = NoRes
    /\ pc = "traverse"

HAsRational ==
    /\ pc = "traverse" /\ hom.pc = "done"
    /\ res' = AsRational(hom.out)
    /\ pc' = "done"
    /\ UNCHANGED <<inp, euc, hom, bih, zip>>

NextH == HTerminate \/ HEgest \/ HIngest \/ HExhaust \/ HAsRational

SpecH == InitH /\ [][NextH]_vars

\* c*r + d and a*r + b scaled by r's denominator
HDen(i) == i.c * i.r[1] + i.d * i.r[2]

HNum(i) == i.a * i.r[1] + i.b * i.r[2]

(***************************************************************************)
(* C1: for all integers a,b,c,d and every rational r with c*r+d # 0,        *)
(* ContFrac(r).homographic(a,b,c,d).as_rational() returns exactly           *)
(* (a*r+b)/(c*r+d).                                                         *)
(***************************************************************************)
C1_HomographicExact ==
    (pc = "done" /\ HDen(inp) # 0)
        => res = Ok(Fraction(HNum(inp), HDen(inp)))

(***************************************************************************)
(* C6: when c = d = 0 or c*r+d = 0 the coefficient stream of                *)
(* ContFrac(r).homographic(a,b,c,d) is empty: no coefficient is emitted.    *)
(***************************************************************************)
C6_UnboundedIsEmpty ==
    ((inp.c = 0 /\ inp.d = 0) \/ HDen(inp) = 0) => hom.out = <<>>

(***************************************************************************)
(* C12: the stream of ContFrac(r).homographic(a,b,c,d) is canonical: every  *)
(* coefficient emitted after the first one is >= 1.  The stream of -x is    *)
(* the case (a,b,c,d) = (-a0,-1,1,0) over the tail of x.                    *)
(***************************************************************************)
C12_HomographicCanonical ==
    \A k \in 2..Len(hom.out) : hom.out[k] >= 1

(***************************************************************************)
(* ContFrac(r) for a Fraction r: its stream is pulled from _euclid one      *)
(* coefficient at a time, then as_rational() or as_integer_ratio() is       *)
(* called on the handle.                                                    *)
(***************************************************************************)
MaxNumR == 12       \* numerators of the rationals materialized directly
MaxDenR == 7        \* their denominators

\* rationals whose last two convergent denominators have a product
\* above 10^14
LargeRats == {<<10000, 1000000001>>, <<-10000, 1000000001>>}

RatsR == {Fraction(n, d) : n \in -MaxNumR..MaxNumR, d \in 1..MaxDenR}
            \cup LargeRats

InitR ==
    /\ inp \in [r : RatsR]
    /\ euc = EStart(inp.r)
    /\ hom = Idle
    /\ bih = Idle
    /\ zip = Idle
    /\ res = NoRes
    /\ pc = "traverse"

\* next(x) on the _euclid generator yields a coefficient and continues
EYield ==
    /\ euc.pc = "loop" /\ EYieldStep(euc).pc = "loop"
    /\ euc' = EYieldStep(euc)
    /\ UNCHANGED <<inp, hom, bih, zip, res, pc>>

\* the remainder is 0: the coefficient is yielded and the loop is left
ELast ==
    /\ euc.pc = "loop" /\ EYieldStep(euc).pc = "done"
    /\ euc' = EYieldStep(euc)
    /\ UNCHANGED <<inp, hom, bih, zip, res, pc>>

AsIntegerRatio(xs) ==
    LET v == AsRational(xs)
    IN  IF v.tag = "ok" THEN [tag |-> "ok", num |-> v.val[1], den |-> v.val[2]]
        ELSE v

RAsRational ==
    /\ pc = "traverse" /\ euc.pc = "done"
    /\ res' = AsRational(euc.out)
    /\ pc' = "as_rational"
    /\ UNCHANGED <<inp, euc, hom, bih, zip>>

RAsIntegerRatio ==
    /\ pc = "traverse" /\ euc.pc = "done"
    /\ res' = AsIntegerRatio(euc.out)
    /\ pc' = "as_integer_ratio"
    /\ UNCHANGED <<inp, euc, hom, bih, zip>>

NextR == EYield \/ ELast \/ RAsRational \/ RAsIntegerRatio

SpecR == InitR /\ [][NextR]_vars

(***************************************************************************)
(* C5: for every rational r, ContFrac(r).as_rational() returns exactly r    *)
(* and as_integer_ratio() returns r's numerator and denominator; the        *)
(* cut-off never returns an earlier convergent.                             *)
(***************************************************************************)
C5_AsRationalExact ==
    /\ pc = "as_rational" => res = Ok(inp.r)
    /\ pc = "as_integer_ratio" =>
          res = [tag |-> "ok", num |-> inp.r[1], den |-> inp.r[2]]

(***************************************************************************)
(* ContFrac(x).bihomographic(ContFrac(y), a..h): the request returns a      *)
(* handle around a generator factory; the traversal runs the generator;     *)
(* as_rational() materializes its stream.                                   *)
(***************************************************************************)
MaxCoefB == 1       \* a, b, c, d range over -MaxCoefB..MaxCoefB
MaxDenCoefB == 1    \* e, f, g, h range over -1..MaxDenCoefB
MaxNumB == 2        \* numerators of x and y range over -MaxNumB..MaxNumB
MaxDenB == 2        \* denominators of x and y range over 1..MaxDenB

CoefsB == -MaxCoefB..MaxCoefB

DenCoefsB == -1..MaxDenCoefB

RatsB == {Fraction(n, d) : n \in -MaxNumB..MaxNumB, d \in 1..MaxDenB}

\* requests that satisfy the precondition e, f, g, h >= 0
InputsValidB ==
    [a : CoefsB, b : CoefsB, c : CoefsB, d : CoefsB,
     e : 0..MaxDenCoefB, f : 0..MaxDenCoefB,
     g : 0..MaxDenCoefB, h : 0..MaxDenCoefB,
     x : RatsB, y : RatsB]

\* requests with a negative denominator coefficient (numerator x*y)
InputsNegativeB ==
    {i \in [a : {1}, b : {0}, c : {0}, d : {0},
            e : DenCoefsB, f : DenCoefsB, g : DenCoefsB, h : DenCoefsB,
            x : RatsB, y : RatsB] :
        i.e < 0 \/ i.f < 0 \/ i.g < 0 \/ i.h < 0}

InitB ==
    /\ inp \in InputsValidB \cup InputsNegativeB
    /\ euc = Idle
    /\ hom = Idle
    /\ bih = Idle
    /\ zip = Idle
    /\ res = NoRes
    /\ pc = "request"

\* ContFrac.bihomographic: wraps the factory, runs nothing of the generator
Bihomographic ==
    /\ pc = "request"
    /\ bih' = BStart(Euclid(inp.x), Euclid(inp.y), inp.a, inp.b, inp.c, inp.d,
                     inp.e, inp.f, inp.g, inp.h)
    /\ pc' = "traverse"
    /\ UNCHANGED <<inp, euc, hom, zip, res>>

BAsRational ==
    /\ pc = "traverse" /\ bih.pc \in {"done", "raised"}
    /\ res' = IF bih.pc = "raised" THEN Raise("Exception")
              ELSE AsRational(bih.out)
    /\ pc' = "done"
    /\ UNCHANGED <<inp, euc, hom, bih, zip>>

NextB ==
    \/ Bihomographic
    \/ BTerminate \/ BRaise \/ BExhaust \/ BEgest
    \/ BIngestX \/ BStopX \/ BIngestY \/ BStopY
    \/ BAsRational

SpecB == InitB /\ [][NextB]_vars

\* numerator and denominator of the bilinear form, scaled by the
\* denominators of x and y
BNum(i) ==
    i.a * i.x[1] * i.y[1] + i.b * i.x[1] * i.y[2]
        + i.c * i.y[1] * i.x[2] + i.d * i.x[2] * i.y[2]

BDen(i) ==
    i.e * i.x[1] * i.y[1] + i.f * i.x[1] * i.y[2]
        + i.g * i.y[1] * i.x[2] + i.h * i.x[2] * i.y[2]

BValid(i) ==
    /\ i.e >= 0 /\ i.f >= 0 /\ i.g >= 0 /\ i.h >= 0
    /\ ~(i.e = 0 /\ i.f = 0 /\ i.g = 0 /\ i.h = 0)

(***************************************************************************)
(* C2: for e,f,g,h >= 0 not all zero and rationals x,y with a non-zero      *)
(* denominator form, bihomographic(...).as_rational() returns exactly       *)
(* (a*x*y+b*x+c*y+d)/(e*x*y+f*x+g*y+h).                                     *)
(***************************************************************************)
C2_BihomographicExact ==
    (pc = "done" /\ BValid(inp) /\ BDen(inp) # 0)
        => res = Ok(Fraction(BNum(inp), BDen(inp)))

\* the request violates the precondition e, f, g, h >= 0
NegativeRequest(i) == i.e < 0 \/ i.f < 0 \/ i.g < 0 \/ i.h < 0

\* nothing was pulled from X or Y and nothing was emitted
BUntouched ==
    bih.x = Euclid(inp.x) /\ bih.y = Euclid(inp.y) /\ bih.out = <<>>

(***************************************************************************)
(* C10 as stated: a request with a negative e, f, g or h fails when         *)
(* bihomographic(...) is requested, before anything is consumed or          *)
(* emitted.                                                                 *)
(***************************************************************************)
C10_FailsAtRequest ==
    (pc # "request" /\ NegativeRequest(inp))
        => res = Raise("Exception") /\ BUntouched

(***************************************************************************)
(* C10 amended: the request returns a handle; the failure is raised by the  *)
(* first pull from the handle's stream, before the ingest/egest loop        *)
(* starts: nothing is consumed from X or Y and nothing is emitted.          *)
(***************************************************************************)
C10_FailsAtFirstPull ==
    (pc # "request" /\ NegativeRequest(inp))
        => /\ bih.pc \in {"start", "raised"}
           /\ BUntouched
           /\ pc = "done" => res = Raise("Exception")

C10_Witness ==
    /\ NegativeRequest(inp) /\ inp.h >= 0
    /\ pc = "done" /\ bih.pc = "raised" /\ res = Raise("Exception")

(***************************************************************************)
(* C13: in every state of a bihomographic traversal that was started with   *)
(* e,f,g,h >= 0 over the streams of two rationals (whose first coefficient  *)
(* may be negative), the generator's e, f, g and h are all >= 0.            *)
(***************************************************************************)
C13_DenominatorsNonNegative ==
    (pc # "request" /\ ~NegativeRequest(inp))
        => (bih.e >= 0 /\ bih.f >= 0 /\ bih.g >= 0 /\ bih.h >= 0)

(***************************************************************************)
(* Binary arithmetic of a handle: the operator methods build a homographic  *)
(* or bihomographic handle (or raise); the handle is traversed and          *)
(* as_rational() is called on it.                                           *)
(*   self   [val, cf]: the handle's value and its coefficient stream        *)
(*   other  [kind, val, cf]: an int, a Fraction or another handle           *)
(***************************************************************************)
\* an int operand n is kept as the pair <<n, 1>>
IntOp(n) == [kind |-> "int", val |-> <<n, 1>>, cf |-> <<>>]

FracOp(v) == [kind |-> "Fraction", val |-> v, cf |-> <<>>]

CFOp(v, cf) == [kind |-> "ContFrac", val |-> v, cf |-> cf]

\* ContFrac(v) for an int or a Fraction of value v
ContFrac(v) == [val |-> v, cf |-> Euclid(v)]

\* numerator and denominator that the methods read from an int or Fraction
OpNum(o) == o.val[1]

OpDen(o) == o.val[2]

\* the value of an operand as a Fraction
OpVal(o) == o.val

ToHom(cf, a, b, c, d) == [tag |-> "hom", st |-> HStart(cf, a, b, c, d)]

ToBih(x, y, a, b, c, d, e, f, g, h) ==
    [tag |-> "bih", st |-> BStart(x, y, a, b, c, d, e, f, g, h)]

NotImplemented == [tag |-> "NotImplemented"]

\* __eq__ and __lt__ against an int or Fraction of value v
\* variant: compares the handle object itself with the number
EqNumberIdentity(cf, v) == Ok(FALSE)

EqNumber(cf, v) ==
    LET r == AsRational(cf)
    IN  IF r.tag = "ok" THEN Ok(r.val = v) ELSE r

LtNumber(cf, v) ==
    LET r == AsRational(cf)
    IN  IF r.tag = "ok" THEN Ok(FracLt(r.val, v)) ELSE r

\* __gt__: not (self < other)
GtNumber(cf, v) ==
    LET r == LtNumber(cf, v)
    IN  IF r.tag = "ok" THEN Ok(~r.val) ELSE r

\* __le__: self < other or self == other
LeNumber(cf, v) ==
    LET l == LtNumber(cf, v)
    IN  IF l.tag # "ok" THEN l
        ELSE IF l.val THEN Ok(TRUE) ELSE EqNumber(cf, v)

\* __ge__: self > other or self == other
GeNumber(cf, v) ==
    LET g == GtNumber(cf, v)
    IN  IF g.tag # "ok" THEN g
        ELSE IF g.val THEN Ok(TRUE) ELSE EqNumber(cf, v)

\* __neg__: split() and homographic(-a, -1, 1, 0) on the residue; the
\* stream of the new handle
NegStream(cf) == HRun(HStart(Tail(cf), -Head(cf), -1, 1, 0))

Zero == <<0, 1>>

AddMethod(self, other) ==
    IF other.kind = "int" THEN ToHom(self.cf, 1, OpNum(other), 0, 1)
    ELSE IF other.kind = "Fraction"
    THEN ToHom(self.cf, OpDen(other), OpNum(other), 0, OpDen(other))
    ELSE ToBih(self.cf, other.cf, 0, 1, 1, 0, 0, 0, 0, 1)

RAddMethod(self, other) ==
    IF other.kind = "int" THEN ToHom(self.cf, 1, OpNum(other), 0, 1)
    ELSE IF other.kind = "Fraction"
    THEN ToHom(self.cf, OpDen(other), OpNum(other), 0, OpDen(other))
    ELSE NotImplemented

SubMethod(self, other) ==
    IF other.kind = "int" THEN ToHom(self.cf, 1, -OpNum(other), 0, 1)
    ELSE IF other.kind = "Fraction"
    THEN ToHom(self.cf, OpDen(other), -OpNum(other), 0, OpDen(other))
    ELSE ToBih(self.cf, other.cf, 0, 1, -1, 0, 0, 0, 0, 1)

RSubMethod(self, other) ==
    IF other.kind = "int" THEN ToHom(self.cf, -1, OpNum(other), 0, 1)
    ELSE IF other.kind = "Fraction"
    THEN ToHom(self.cf, -OpDen(other), OpNum(other), 0, OpDen(other))
    ELSE NotImplemented

MulMethod(self, other) ==
    IF other.kind = "int" THEN ToHom(self.cf, OpNum(other), 0, 0, 1)
    ELSE IF other.kind = "Fraction"
    THEN ToHom(self.cf, OpNum(other), 0, 0, OpDen(other))
    ELSE ToBih(self.cf, other.cf, 1, 0, 0, 0, 0, 0, 0, 1)

RMulMethod(self, other) ==
    IF other.kind = "int" THEN ToHom(self.cf, OpNum(other), 0, 0, 1)
    ELSE IF other.kind = "Fraction"
    THEN ToHom(self.cf, OpNum(other), 0, 0, OpDen(other))
    ELSE NotImplemented

TrueDivMethod(self, other) ==
    IF other.kind \in {"int", "Fraction"}
    THEN IF OpNum(other) = 0 THEN Raise("OverflowError")
         ELSE ToHom(self.cf, OpDen(other), 0, 0, OpNum(other))
    ELSE LET z == EqNumber(other.cf, Zero)
             p == GtNumber(other.cf, Zero)
         IN  IF z.tag # "ok" THEN z
             ELSE IF z.val THEN Raise("OverflowError")
             ELSE IF p.tag # "ok" THEN p
             ELSE IF p.val
             THEN ToBih(self.cf, other.cf, 0, 1, 0, 0, 0, 0, 1, 0)
             ELSE ToBih(self.cf, NegStream(other.cf), 0, -1, 0, 0, 0, 0, 1, 0)

RTrueDivMethod(self, other) ==
    IF other.kind \notin {"int", "Fraction"} THEN NotImplemented
    ELSE LET z == EqNumber(self.cf, Zero)
         IN  IF z.tag # "ok" THEN z
             ELSE IF z.val THEN Raise("OverflowError")
             ELSE ToHom(self.cf, 0, OpNum(other), OpDen(other), 0)

\* the outcome of an operator method: a new handle whose generator has not
\* run yet, or the exception that left the method
Dispatch(o) ==
    /\ hom' = IF o.tag = "hom" THEN o.st ELSE hom
    /\ bih' = IF o.tag = "bih" THEN o.st ELSE bih
    /\ res' = IF o.tag \in {"hom", "bih"} THEN res ELSE o
    /\ pc'  = IF o.tag \in {"hom", "bih"} THEN "traverse" ELSE "done"
    /\ UNCHANGED <<inp, euc, zip>>

Ints == -MaxNum..MaxNum

\* ContFrac(a) for the input rationals
DirectHandles == {ContFrac(v) : v \in Rats}

\* handles of value zero: ContFrac(0), ContFrac(r) - r, ContFrac(r) * 0 and
\* ContFrac(r).homographic(a, b, c, d) with a*r + b = 0 and c*r + d # 0
ZeroHandles ==
    {ContFrac(Zero)}
      \cup {[val |-> Zero,
             cf |-> HRun(HStart(Euclid(r), r[2], -r[1], 0, r[2]))] : r \in Rats}
      \cup {[val |-> Zero, cf |-> HRun(HStart(Euclid(r), 0, 0, 0, 1))] : r \in Rats}
      \cup {[val |-> Zero,
             cf |-> HRun(HStart(Euclid(i.r), i.a, i.b, i.c, i.d))] :
               i \in {j \in [a : Coefs, b : Coefs, c : Coefs, d : Coefs,
                             r : Rats] :
                          j.a * j.r[1] + j.b * j.r[2] = 0
                            /\ j.c * j.r[1] + j.d * j.r[2] # 0}}

Numbers == {IntOp(n) : n \in Ints} \cup {FracOp(v) : v \in Rats}

Operands == Numbers \cup {CFOp(k.val, k.cf) : k \in DirectHandles}

ForwardMethods == {"__add__", "__sub__", "__mul__", "__truediv__"}

ReflectedMethods == {"__radd__", "__rsub__", "__rmul__", "__rtruediv__"}

\* divisions by a handle of value zero
InputsZeroDivA ==
    [meth : {"__truediv__"}, self : DirectHandles,
     other : {CFOp(k.val, k.cf) : k \in ZeroHandles}]
      \cup [meth : {"__rtruediv__"}, self : ZeroHandles, other : Numbers]

\* a handle with a large denominator, with 0 added or subtracted
InputsLargeA ==
    [meth : {"__add__", "__sub__"},
     self : {ContFrac(v) : v \in LargeRats},
     other : {IntOp(0)}]

InitA ==
    /\ inp \in [meth : ForwardMethods, self : DirectHandles, other : Operands]
          \cup [meth : ReflectedMethods, self : DirectHandles, other : Numbers]
          \cup InputsZeroDivA
          \cup InputsLargeA
    /\ euc = Idle
    /\ hom = Idle
    /\ bih = Idle
    /\ zip = Idle
    /\ res = NoRes
    /\ pc = "apply"

Add ==
    /\ pc = "apply" /\ inp.meth = "__add__"
    /\ Dispatch(AddMethod(inp.self, inp.other))

RAdd ==
    /\ pc = "apply" /\ inp.meth = "__radd__"
    /\ Dispatch(RAddMethod(inp.self, inp.other))

Sub ==
    /\ pc = "apply" /\ inp.meth = "__sub__"
    /\ Dispatch(SubMethod(inp.self, inp.other))

RSub ==
    /\ pc = "apply" /\ inp.meth = "__rsub__"
    /\ Dispatch(RSubMethod(inp.self, inp.other))

Mul ==
    /\ pc = "apply" /\ inp.meth = "__mul__"
    /\ Dispatch(MulMethod(inp.self, inp.other))

RMul ==
    /\ pc = "apply" /\ inp.meth = "__rmul__"
    /\ Dispatch(RMulMethod(inp.self, inp.other))

TrueDiv ==
    /\ pc = "apply" /\ inp.meth = "__truediv__"
    /\ Dispatch(TrueDivMethod(inp.self, inp.other))

RTrueDiv ==
    /\ pc = "apply" /\ inp.meth = "__rtruediv__"
    /\ Dispatch(RTrueDivMethod(inp.self, inp.other))

AAsRational ==
    /\ pc = "traverse" /\ (hom.pc = "done" \/ bih.pc = "done")
    /\ res' = AsRational(IF hom.pc = "done" THEN hom.out ELSE bih.out)
    /\ pc' = "done"
    /\ UNCHANGED <<inp, euc, hom, bih, zip>>

\* the operators never request c = d = 0, e = f = g = h = 0 or a negative
\* denominator coefficient, so the generators never take those exits here
NextA ==
    \/ Add \/ RAdd \/ Sub \/ RSub \/ Mul \/ RMul \/ TrueDiv \/ RTrueDiv
    \/ HEgest \/ HIngest \/ HExhaust
    \/ BExhaust \/ BEgest \/ BIngestX \/ BStopX \/ BIngestY \/ BStopY
    \/ AAsRational

SpecA == InitA /\ [][NextA]_vars

\* the exact rational  a op b  of the requested operation
AExpected(i) ==
    LET s == i.self.val
        o == OpVal(i.other)
    IN  CASE i.meth \in {"__add__", "__radd__"} -> FracAdd(s, o)
          [] i.meth = "__sub__" -> FracSub(s, o)
          [] i.meth = "__rsub__" -> FracSub(o, s)
          [] i.meth \in {"__mul__", "__rmul__"} -> FracMul(s, o)
          [] i.meth = "__truediv__" -> FracDiv(s, o)
          [] i.meth = "__rtruediv__" -> FracDiv(o, s)

\* the divisor of the requested operation is zero
ADivByZero(i) ==
    \/ i.meth = "__truediv__" /\ OpVal(i.other) = Zero
    \/ i.meth = "__rtruediv__" /\ i.self.val = Zero

(***************************************************************************)
(* C3: for each operator in + - * / (divisor non-zero) and each operand     *)
(* form (handle op number, number op handle, handle op handle) the result   *)
(* handle's as_rational() equals the exact rational a op b.                 *)
(***************************************************************************)
C3_ArithmeticExact ==
    (pc = "done" /\ ~ADivByZero(inp)) => res = Ok(AExpected(inp))

ZStart(meth, a, b) ==
    [meth |-> meth, a |-> a, b |-> b, n |-> 0, pc |-> "zip", ret |-> NoRes]

\* zip pulled a pair: the loop body
ZPairStep(s) ==
    LET x == Head(s.a)
        y == Head(s.b)
    IN  IF x # y
        THEN [s EXCEPT !.a = Tail(s.a), !.b = Tail(s.b), !.pc = "done",
                       !.ret = IF s.meth = "__eq__" THEN Ok(FALSE)
                               ELSE IF s.n % 2 = 0 THEN Ok(x < y)
                               ELSE Ok(y < x)]
        ELSE [s EXCEPT !.a = Tail(s.a), !.b = Tail(s.b), !.n = s.n + 1]

\* zip found coeff_a exhausted: coeff_b is not pulled
ZEndAStep(s) == [s EXCEPT !.pc = "rest"]

\* zip pulled from coeff_a and then found coeff_b exhausted: the
\* coefficient pulled from coeff_a is dropped
ZEndBStep(s) == [s EXCEPT !.a = Tail(s.a), !.pc = "rest"]

\* next(coeff, None)
NextOrNone(xs) == IF xs = <<>> THEN None ELSE <<Head(xs)>>

\* the return statement after the loop
ZRestStep(s) ==
    LET rest_a == NextOrNone(s.a)
        rest_b == NextOrNone(s.b)
    IN  [s EXCEPT !.a = IF s.a = <<>> THEN s.a ELSE Tail(s.a),
                  !.b = IF s.b = <<>> THEN s.b ELSE Tail(s.b),
                  !.pc = "done",
                  !.ret = IF s.meth = "__eq__"
                          THEN Ok(rest_a = rest_b /\ rest_b = None)
                          ELSE Ok((IF s.n % 2 = 0 THEN rest_a ELSE rest_b)
                                      # None)]

ZStep(s) ==
    IF s.pc = "rest" THEN ZRestStep(s)
    ELSE IF s.a = <<>> THEN ZEndAStep(s)
    ELSE IF s.b = <<>> THEN ZEndBStep(s)
    ELSE ZPairStep(s)

RECURSIVE ZRun(_)
ZRun(s) == IF s.pc = "done" THEN s.ret ELSE ZRun(ZStep(s))

MaxLen == 3         \* longest explicit coefficient list
MaxTerm == 2        \* the terms of the lists range over -1..MaxTerm

RECURSIVE ListsOfLen(_)
ListsOfLen(k) ==
    IF k = 0 THEN {<<>>}
    ELSE {Append(l, t) : l \in ListsOfLen(k - 1), t \in -1..MaxTerm}

\* ContFrac(list) for a non-empty list: the stream is the list itself
Lists == UNION {ListsOfLen(k) : k \in 1..MaxLen}

Canonical(l) ==
    /\ Len(l) >= 1
    /\ \A k \in 2..Len(l) : l[k] >= 1
    /\ Len(l) > 1 => l[Len(l)] >= 2

\* the value of a canonical list: a0 + 1/(a1 + 1/(...))
RECURSIVE CFValue(_)
CFValue(l) ==
    IF Len(l) = 1 THEN <<l[1], 1>>
    ELSE LET t == CFValue(Tail(l))
         IN  FracAdd(<<l[1], 1>>, Fraction(t[2], t[1]))

CompareMethods == {"__eq__", "__lt__", "__le__", "__gt__", "__ge__"}

InitC ==
    /\ inp \in [meth : CompareMethods,
                self : {ContFrac(v) : v \in Rats}, other : Numbers]
          \cup [meth : {"__eq__", "__lt__"},
                self : {[val |-> None, cf |-> l] : l \in Lists},
                other : {CFOp(None, l) : l \in Lists}]
    /\ euc = Idle
    /\ hom = Idle
    /\ bih = Idle
    /\ zip = Idle
    /\ res = NoRes
    /\ pc = "apply"

\* a comparison method called with an int or Fraction: returns at once
CompareNumber(meth, cf, v) ==
    CASE meth = "__eq__" -> EqNumber(cf, v)
      [] meth = "__lt__" -> LtNumber(cf, v)
      [] meth = "__le__" -> LeNumber(cf, v)
      [] meth = "__gt__" -> GtNumber(cf, v)
      [] meth = "__ge__" -> GeNumber(cf, v)

Eq ==
    /\ pc = "apply" /\ inp.meth = "__eq__"
    /\ IF inp.other.kind = "ContFrac"
       THEN /\ zip' = ZStart("__eq__", inp.self.cf, inp.other.cf)
            /\ pc' = "compare"
            /\ UNCHANGED res
       ELSE /\ res' = EqNumber(inp.self.cf, OpVal(inp.other))
            /\ pc' = "done"
            /\ UNCHANGED zip
    /\ UNCHANGED <<inp, euc, hom, bih>>

Lt ==
    /\ pc = "apply" /\ inp.meth = "__lt__"
    /\ IF inp.other.kind = "ContFrac"
       THEN /\ zip' = ZStart("__lt__", inp.self.cf, inp.other.cf)
            /\ pc' = "compare"
            /\ UNCHANGED res
       ELSE /\ res' = LtNumber(inp.self.cf, OpVal(inp.other))
            /\ pc' = "done"
            /\ UNCHANGED zip
    /\ UNCHANGED <<inp, euc, hom, bih>>

Le ==
    /\ pc = "apply" /\ inp.meth = "__le__"
    /\ res' = LeNumber(inp.self.cf, OpVal(inp.other))
    /\ pc' = "done"
    /\ UNCHANGED <<inp, euc, hom, bih, zip>>

Gt ==
    /\ pc = "apply" /\ inp.meth = "__gt__"
    /\ res' = GtNumber(inp.self.cf, OpVal(inp.other))
    /\ pc' = "done"
    /\ UNCHANGED <<inp, euc, hom, bih, zip>>

Ge ==
    /\ pc = "apply" /\ inp.meth = "__ge__"
    /\ res' = GeNumber(inp.self.cf, OpVal(inp.other))
    /\ pc' = "done"
    /\ UNCHANGED <<inp, euc, hom, bih, zip>>

ZPair ==
    /\ pc = "compare" /\ zip.pc = "zip" /\ zip.a # <<>> /\ zip.b # <<>>
    /\ zip' = ZPairStep(zip)
    /\ UNCHANGED <<inp, euc, hom, bih, res, pc>>

ZEndA ==
    /\ pc = "compare" /\ zip.pc = "zip" /\ zip.a = <<>>
    /\ zip' = ZEndAStep(zip)
    /\ UNCHANGED <<inp, euc, hom, bih, res, pc>>

ZEndB ==
    /\ pc = "compare" /\ zip.pc = "zip" /\ zip.a # <<>> /\ zip.b = <<>>
    /\ zip' = ZEndBStep(zip)
    /\ UNCHANGED <<inp, euc, hom, bih, res, pc>>

ZRest ==
    /\ pc = "compare" /\ zip.pc = "rest"
    /\ zip' = ZRestStep(zip)
    /\ UNCHANGED <<inp, euc, hom, bih, res, pc>>

ZReturn ==
    /\ pc = "compare" /\ zip.pc = "done"
    /\ res' = zip.ret
    /\ pc' = "done"
    /\ UNCHANGED <<inp, euc, hom, bih, zip>>

NextC ==
    \/ Eq \/ Lt \/ Le \/ Gt \/ Ge
    \/ ZPair \/ ZEndA \/ ZEndB \/ ZRest \/ ZReturn

SpecC == InitC /\ [][NextC]_vars

\* the comparison of the two rationals named by the method
CExpected(meth, a, b) ==
    CASE meth = "__eq__" -> a = b
      [] meth = "__lt__" -> FracLt(a, b)
      [] meth = "__le__" -> FracLt(a, b) \/ a = b
      [] meth = "__gt__" -> FracLt(b, a)
      [] meth = "__ge__" -> FracLt(b, a) \/ a = b

(***************************************************************************)
(* C4: for all rationals a and b (a = b included) each of                   *)
(* ContFrac(a) < b, <= b, == b, >= b, > b returns the truth value of the    *)
(* same comparison of a and b.                                              *)
(***************************************************************************)
C4_ComparisonConsistent ==
    (pc = "done" /\ inp.other.kind # "ContFrac")
        => res = Ok(CExpected(inp.meth, inp.self.val, OpVal(inp.other)))

(***************************************************************************)
(* C7: for two handles over finite streams, A == B returns True exactly     *)
(* when the two coefficient sequences are identical, and B == A returns     *)
(* the same.                                                                *)
(***************************************************************************)
C7_EqIffIdentical ==
    (pc = "done" /\ inp.meth = "__eq__" /\ inp.other.kind = "ContFrac")
        => /\ res = Ok(inp.self.cf = inp.other.cf)
           /\ res = ZRun(ZStart("__eq__", inp.other.cf, inp.self.cf))

(***************************************************************************)
(* C8: for two handles over finite canonical lists, A < B returns True      *)
(* exactly when value(A) < value(B), also when one list is a proper         *)
(* prefix of the other, whichever is longer.                                *)
(***************************************************************************)
C8_LtIffValueLess ==
    (/\ pc = "done" /\ inp.meth = "__lt__" /\ inp.other.kind = "ContFrac"
     /\ Canonical(inp.self.cf) /\ Canonical(inp.other.cf))
        => res = Ok(FracLt(CFValue(inp.self.cf), CFValue(inp.other.cf)))


(***************************************************************************)
(* Traversals of one handle.  coefficients() calls the handle's factory;    *)
(* the factory of a derived handle calls the factories of its operands, so  *)
(* every traversal owns its generator objects.  Here                        *)
(*   inp    the handle: its shape, the lists behind its operands and the    *)
(*          transform's coefficients                                        *)
(*   euc    the source iterators created so far (_euclid generators and     *)
(*          list iterators), each the coefficients it has not yet yielded;  *)
(*          an iterator is referred to by its index                         *)
(*   hom, bih   the transform generator of each traversal, whose x and y    *)
(*          are references into euc                                         *)
(*   res    the coefficients each traversal has pulled                      *)
(*   pc     per traversal: at "idle", "running" or "done", and for a        *)
(*          traversal of a source iterator the reference root               *)
(***************************************************************************)
MaxStarts == 3     \* calls of coefficients() in one behaviour
MaxCoefT == 1      \* a, b of homographic range over -MaxCoefT..MaxCoefT

Traversals == {1, 2}

\* variant: the factory hands out the iterator it created first
NewIterShared(heap, xs) ==
    IF heap = <<>> THEN [heap |-> <<xs>>, ref |-> 1]
    ELSE [heap |-> heap, ref |-> 1]

\* self._coefficients() of a handle built from an int, a Fraction or a
\* list: a new generator object over the captured value
NewIter(heap, xs) == [heap |-> Append(heap, xs), ref |-> Len(heap) + 1]

\* _residue: drops the first coefficient when the factory is called
Residue(xs) == Tail(xs)

\* what the factory of an operand iterates: the list, or its residue
Source(xs, skip) == IF skip THEN Residue(xs) ELSE xs

\* line 119 as a function of the generator's state: tie tells how the
\* comparison of doubles falls where rounding decides
BTakesXTie(s, tie) ==
    IF BTakesX(s) = {TRUE, FALSE} THEN tie ELSE TRUE \in BTakesX(s)

\* one step of a _bihomographic_transform generator over two lists
BStep(s, tie) ==
    IF s.pc = "start" /\ BAllZero(s) THEN BTerminateStep(s)
    ELSE IF s.pc = "start" /\ BAnyNegative(s) THEN BRaiseStep(s)
    ELSE IF BBothStopped(s) THEN BExhaustStep(s)
    ELSE IF BCanEgest(s) THEN BEgestStep(s)
    ELSE IF BTakesXTie(s, tie)
         THEN IF s.x # <<>> THEN BIngestXStep(s) ELSE BStopXStep(s)
    ELSE IF s.y # <<>> THEN BIngestYStep(s) ELSE BStopYStep(s)

\* the whole stream of a _bihomographic_transform over two finite lists
RECURSIVE BRun(_, _)
BRun(s, tie) ==
    IF s.pc \in {"done", "raised"} THEN s.out ELSE BRun(BStep(s, tie), tie)

CoefsT == -MaxCoefT..MaxCoefT

\* the coefficients behind ContFrac(-2), ContFrac(Fraction(3, 2)),
\* ContFrac(Fraction(-3, 2)) and ContFrac(list) for three lists
BasesT ==
    {Euclid(<<-2, 1>>), Euclid(<<3, 2>>), Euclid(<<-3, 2>>),
     <<1, 1, 1>>, <<2, 2, 2>>, <<0, 2, 1, 2>>}

\* the bihomographic transforms requested: x+y, x*y, x/y, x*y/(x+y), none
MatricesT ==
    {<<0, 1, 1, 0, 0, 0, 0, 1>>, <<1, 0, 0, 0, 0, 0, 0, 1>>,
     <<0, 1, 0, 0, 0, 0, 1, 0>>, <<1, 0, 0, 0, 0, 1, 1, 0>>,
     <<1, 0, 0, 0, 0, 0, 0, 0>>}

\* x and x.split()[1]
HandlesIter ==
    [shape : {"iter"}, x : BasesT, y : {<<>>}, skip : BOOLEAN,
     m : {<<>>}, tie : {FALSE}]

\* x.homographic(a, b, c, d) and x.split()[1].homographic(a, b, c, d)
HandlesHom ==
    [shape : {"hom"}, x : BasesT, y : {<<>>}, skip : BOOLEAN,
     m : {<<a, b, c, d>> : a \in CoefsT, b \in CoefsT,
                           c \in 0..1, d \in 0..1},
     tie : {FALSE}]

\* x.bihomographic(x, ...) and x.bihomographic(y, ...)
HandlesBih ==
    {i \in [shape : {"bih"}, x : BasesT, y : BasesT, skip : {FALSE},
            m : MatricesT, tie : BOOLEAN] :
        i.y = i.x \/ (i.y = <<0, 2, 1, 2>> /\ i.m = <<0, 1, 1, 0, 0, 0, 0, 1>>)}

NoTraversal == [at |-> "idle", root |-> 0]

InitT ==
    /\ inp \in HandlesIter \cup HandlesHom \cup HandlesBih
    /\ euc = <<>>
    /\ hom = [i \in Traversals |-> Idle]
    /\ bih = [i \in Traversals |-> Idle]
    /\ zip = Idle
    /\ res = [i \in Traversals |-> <<>>]
    /\ pc = [i \in Traversals |-> NoTraversal]


Running(i, shape) == pc[i].at = "running" /\ inp.shape = shape

\* ContFrac.coefficients: calls the factory, which calls the factories of
\* the operands and creates the generator; no generator body runs
Coefficients(i) ==
    /\ pc[i].at = "idle"
    /\ Len(euc) < MaxStarts * (IF inp.shape = "bih" THEN 2 ELSE 1)
    /\ LET nx == NewIter(euc, Source(inp.x, inp.skip))
           ny == NewIter(nx.heap, inp.y)
           m  == inp.m
       IN  CASE inp.shape = "iter" ->
                  /\ euc' = nx.heap
                  /\ pc' = [pc EXCEPT ![i] = [at |-> "running",
                                              root |-> nx.ref]]
                  /\ UNCHANGED <<hom, bih>>
             [] inp.shape = "hom" ->
                  /\ euc' = nx.heap
                  /\ hom' = [hom EXCEPT
                               ![i] = HStart(nx.ref, m[1], m[2], m[3], m[4])]
                  /\ pc' = [pc EXCEPT ![i] = [at |-> "running", root |-> 0]]
                  /\ UNCHANGED bih
             [] inp.shape = "bih" ->
                  /\ euc' = ny.heap
                  /\ bih' = [bih EXCEPT
                               ![i] = BStart(nx.ref, ny.ref, m[1], m[2], m[3],
                                             m[4], m[5], m[6], m[7], m[8])]
                  /\ pc' = [pc EXCEPT ![i] = [at |-> "running", root |-> 0]]
                  /\ UNCHANGED hom
    /\ res' = [res EXCEPT ![i] = <<>>]
    /\ UNCHANGED <<inp, zip>>

\* the source iterators that traversal i refers to
Refs(i) ==
    IF pc[i].at = "idle" THEN {}
    ELSE CASE inp.shape = "iter" -> {pc[i].root}
           [] inp.shape = "hom" -> {hom[i].x}
           [] inp.shape = "bih" -> {bih[i].x, bih[i].y}

\* the caller drops a traversal it has not finished: its generator is
\* reclaimed, and so is every iterator that nothing else refers to
Abandon(i) ==
    /\ pc[i].at = "running"
    /\ LET kept == UNION {Refs(j) : j \in Traversals \ {i}}
       IN  euc' = [k \in 1..Len(euc) |->
                     IF k \in Refs(i) \ kept THEN <<>> ELSE euc[k]]
    /\ pc' = [pc EXCEPT ![i] = NoTraversal]
    /\ hom' = [hom EXCEPT ![i] = Idle]
    /\ bih' = [bih EXCEPT ![i] = Idle]
    /\ res' = [res EXCEPT ![i] = <<>>]
    /\ UNCHANGED <<inp, zip>>

\* next() on a source iterator that has a coefficient left
IterNext(i) ==
    /\ Running(i, "iter") /\ euc[pc[i].root] # <<>>
    /\ res' = [res EXCEPT ![i] = Append(@, Head(euc[pc[i].root]))]
    /\ euc' = [euc EXCEPT ![pc[i].root] = Tail(@)]
    /\ UNCHANGED <<inp, hom, bih, zip, pc>>

\* next() on a source iterator that is exhausted
IterStop(i) ==
    /\ Running(i, "iter") /\ euc[pc[i].root] = <<>>
    /\ pc' = [pc EXCEPT ![i].at = "done"]
    /\ UNCHANGED <<inp, euc, hom, bih, zip, res>>

\* the generator of traversal i with the contents of the iterators it
\* refers to in place of the references
HView(i) == [hom[i] EXCEPT !.x = euc[hom[i].x]]

BView(i) == [bih[i] EXCEPT !.x = euc[bih[i].x], !.y = euc[bih[i].y]]

\* the generator of traversal i after a step that left it as s
HStore(i, s) ==
    /\ hom' = [hom EXCEPT ![i] = [s EXCEPT !.x = hom[i].x]]
    /\ res' = [res EXCEPT ![i] = s.out]
    /\ pc' = [pc EXCEPT ![i].at = IF s.pc = "done" THEN "done" ELSE "running"]
    /\ UNCHANGED <<inp, bih, zip>>

BStore(i, s) ==
    /\ bih' = [bih EXCEPT ![i] = [s EXCEPT !.x = bih[i].x, !.y = bih[i].y]]
    /\ res' = [res EXCEPT ![i] = s.out]
    /\ pc' = [pc EXCEPT ![i].at = IF s.pc = "done" THEN "done" ELSE "running"]
    /\ UNCHANGED <<inp, hom, zip>>

TraverseHTerminate(i) ==
    /\ Running(i, "hom")
    /\ hom[i].pc = "start" /\ hom[i].c = 0 /\ hom[i].d = 0
    /\ HStore(i, HTerminateStep(HView(i)))
    /\ UNCHANGED euc

TraverseHEgest(i) ==
    /\ Running(i, "hom") /\ HInLoop(hom[i]) /\ HCanEgest(hom[i])
    /\ HStore(i, HEgestStep(HView(i)))
    /\ UNCHANGED euc

TraverseHIngest(i) ==
    /\ Running(i, "hom") /\ HInLoop(hom[i]) /\ ~HCanEgest(hom[i])
    /\ euc[hom[i].x] # <<>>
    /\ HStore(i, HIngestStep(HView(i)))
    /\ euc' = [euc EXCEPT ![hom[i].x] = Tail(@)]

TraverseHExhaust(i) ==
    /\ Running(i, "hom") /\ HInLoop(hom[i]) /\ ~HCanEgest(hom[i])
    /\ euc[hom[i].x] = <<>>
    /\ HStore(i, HExhaustStep(HView(i)))
    /\ UNCHANGED euc

TraverseBTerminate(i) ==
    /\ Running(i, "bih") /\ bih[i].pc = "start" /\ BAllZero(bih[i])
    /\ BStore(i, BTerminateStep(BView(i)))
    /\ UNCHANGED euc

TraverseBExhaust(i) ==
    /\ Running(i, "bih") /\ BInLoop(bih[i]) /\ BBothStopped(bih[i])
    /\ BStore(i, BExhaustStep(BView(i)))
    /\ UNCHANGED euc

TraverseBEgest(i) ==
    /\ Running(i, "bih") /\ BInLoop(bih[i]) /\ ~BBothStopped(bih[i])
    /\ BCanEgest(bih[i])
    /\ BStore(i, BEgestStep(BView(i)))
    /\ UNCHANGED euc

\* the generator of traversal i is in the loop and cannot egest
BNeedsMore(i) ==
    /\ Running(i, "bih") /\ BInLoop(bih[i]) /\ ~BBothStopped(bih[i])
    /\ ~BCanEgest(bih[i])

TraverseBIngestX(i) ==
    /\ BNeedsMore(i) /\ BTakesXTie(bih[i], inp.tie)
    /\ euc[bih[i].x] # <<>>
    /\ BStore(i, BIngestXStep(BView(i)))
    /\ euc' = [euc EXCEPT ![bih[i].x] = Tail(@)]

TraverseBStopX(i) ==
    /\ BNeedsMore(i) /\ BTakesXTie(bih[i], inp.tie)
    /\ euc[bih[i].x] = <<>>
    /\ BStore(i, BStopXStep(BView(i)))
    /\ UNCHANGED euc

TraverseBIngestY(i) ==
    /\ BNeedsMore(i) /\ ~BTakesXTie(bih[i], inp.tie) /\ ~bih[i].stop_y
    /\ euc[bih[i].y] # <<>>
    /\ BStore(i, BIngestYStep(BView(i)))
    /\ euc' = [euc EXCEPT ![bih[i].y] = Tail(@)]

TraverseBStopY(i) ==
    /\ BNeedsMore(i) /\ ~BTakesXTie(bih[i], inp.tie) /\ ~bih[i].stop_y
    /\ euc[bih[i].y] = <<>>
    /\ BStore(i, BStopYStep(BView(i)))
    /\ UNCHANGED euc

NextT ==
    \E i \in Traversals :
        \/ Coefficients(i) \/ Abandon(i) \/ IterNext(i) \/ IterStop(i)
        \/ TraverseHTerminate(i) \/ TraverseHEgest(i)
        \/ TraverseHIngest(i) \/ TraverseHExhaust(i)
        \/ TraverseBTerminate(i) \/ TraverseBExhaust(i) \/ TraverseBEgest(i)
        \/ TraverseBIngestX(i) \/ TraverseBStopX(i)
        \/ TraverseBIngestY(i) \/ TraverseBStopY(i)

SpecT == InitT /\ [][NextT]_vars

\* the coefficient sequence of one traversal of the handle run alone
Single(h) ==
    CASE h.shape = "iter" -> Source(h.x, h.skip)
      [] h.shape = "hom" ->
           HRun(HStart(Source(h.x, h.skip), h.m[1], h.m[2], h.m[3], h.m[4]))
      [] h.shape = "bih" ->
           BRun(BStart(h.x, h.y, h.m[1], h.m[2], h.m[3], h.m[4],
                       h.m[5], h.m[6], h.m[7], h.m[8]), h.tie)

IsPrefix(s, t) == Len(s) <= Len(t) /\ SubSeq(t, 1, Len(s)) = s

\* C11: every traversal of a handle, however its pulls are interleaved
\* with those of another traversal of the same handle and whatever
\* traversals were abandoned before it, has pulled a prefix of the sequence
\* that a single traversal run alone yields, and the whole of it at its end.
C11_TraversalsIsolated ==
    LET single == Single(inp)
    IN  \A i \in Traversals :
            /\ pc[i].at # "idle" => IsPrefix(res[i], single)
            /\ pc[i].at = "done" => res[i] = single

\* both traversals of x.bihomographic(x, ...) have ended with two or more
\* coefficients each, after an earlier traversal was abandoned
C11_Witness ==
    /\ inp.shape = "bih" /\ inp.y = inp.x
    /\ pc[1].at = "done" /\ pc[2].at = "done"
    /\ Len(res[1]) >= 2 /\ res[2] = res[1]
    /\ Len(euc) >= 6


(***************************************************************************)
(* A bihomographic stream over two infinite periodic inputs, pulled by a    *)
(* consumer one coefficient at a time.                                      *)
(*   inp    the transform's coefficients and one period of X and of Y       *)
(*   bih    the generator; its x and y hold the period of each input        *)
(*   euc    the position of each input within its period                    *)
(*   pc     "idle" between pulls, "pulling" while a next() is running       *)
(* Neither input ends, so stop_x and stop_y stay false.                     *)
(***************************************************************************)
MaxPulls == 2      \* coefficients the consumer asks for
MaxVal == 100      \* magnitudes kept for coefficients that are never read

\* one period of the inputs: 1,1,1,...  2,2,2,...  1,2,1,2,...
PeriodsL == {<<1, 1>>, <<2, 2>>, <<1, 2>>}

\* x + y, x * y and (x*y + x + y + 1)/(x*y + 1)
MatricesL ==
    {<<0, 1, 1, 0, 0, 0, 0, 1>>, <<1, 0, 0, 0, 0, 0, 0, 1>>,
     <<1, 1, 1, 1, 1, 0, 0, 1>>}

\* the coefficient of a periodic input at position k, and the position
\* after it was pulled
Current(xs, k) == xs[k + 1]

Advance(xs, k) == (k + 1) % Len(xs)

\* with e = 0 and f = 0 the egest test stops at e != 0 and line 119 at
\* f != 0, and an ingest from Y leaves e = 0 and f = 0: the loop reads
\* none of a, b, c, d, g, h again
Unread(s) == s.e = 0 /\ s.f = 0

Clamp(v) == IF v > MaxVal THEN MaxVal ELSE IF v < -MaxVal THEN -MaxVal ELSE v

\* the generator's state, with the coefficients that are never read again
\* kept up to MaxVal
Kept(s) ==
    IF Unread(s)
    THEN [s EXCEPT !.a = Clamp(s.a), !.b = Clamp(s.b), !.c = Clamp(s.c),
                   !.d = Clamp(s.d), !.g = Clamp(s.g), !.h = Clamp(s.h)]
    ELSE s

InitL ==
    /\ inp \in [m : MatricesL, x : PeriodsL, y : PeriodsL]
    /\ bih = BStart(inp.x, inp.y, inp.m[1], inp.m[2], inp.m[3], inp.m[4],
                    inp.m[5], inp.m[6], inp.m[7], inp.m[8])
    /\ euc = [x |-> 0, y |-> 0]
    /\ hom = Idle
    /\ zip = Idle
    /\ res = NoRes
    /\ pc = "idle"

\* the consumer calls next() on the stream
LPull ==
    /\ pc = "idle" /\ Len(bih.out) < MaxPulls
    /\ pc' = "pulling"
    /\ UNCHANGED <<inp, euc, hom, bih, zip, res>>

\* the generator yields: next() returns
LEgest ==
    /\ pc = "pulling" /\ BInLoop(bih) /\ BCanEgest(bih)
    /\ bih' = Kept(BEgestStep(bih))
    /\ pc' = "idle"
    /\ UNCHANGED <<inp, euc, hom, zip, res>>

LIngestX ==
    /\ pc = "pulling" /\ BInLoop(bih) /\ ~BCanEgest(bih)
    /\ TRUE \in BTakesX(bih)
    /\ LET s == [bih EXCEPT !.x = <<Current(inp.x, euc.x)>>]
       IN  bih' = Kept([BIngestXStep(s) EXCEPT !.x = inp.x])
    /\ euc' = [euc EXCEPT !.x = Advance(inp.x, @)]
    /\ UNCHANGED <<inp, hom, zip, res, pc>>

LIngestY ==
    /\ pc = "pulling" /\ BInLoop(bih) /\ ~BCanEgest(bih)
    /\ FALSE \in BTakesX(bih)
    /\ LET s == [bih EXCEPT !.y = <<Current(inp.y, euc.y)>>]
       IN  bih' = Kept([BIngestYStep(s) EXCEPT !.y = inp.y])
    /\ euc' = [euc EXCEPT !.y = Advance(inp.y, @)]
    /\ UNCHANGED <<inp, hom, zip, res, pc>>

NextL == LPull \/ LEgest \/ LIngestX \/ LIngestY

\* a next() that has been called runs the loop until it yields, and the
\* consumer goes on to its next pull
SpecL == InitL /\ [][NextL]_vars /\ WF_vars(NextL)

\* C14: every pull of the next coefficient from a bihomographic stream
\* over infinite inputs completes: a next() that is running eventually
\* returns a coefficient.
C14_PullCompletes == (pc = "pulling") ~> (pc = "idle")


(***************************************************************************)
(* int(h) and math.trunc(h) of a handle h of finite value.                  *)
(*   inp    the method called, the value val that h denotes and the         *)
(*          stream cf that a traversal of h yields                          *)
(*   euc    the stream __int__ is reading: what is left of it, and the      *)
(*          first coefficient a once it was read                            *)
(*   pc     "call", "first" after __int__ has read a, "done"                *)
(***************************************************************************)
MaxCoefI == 2      \* a, b, c, d of homographic range over -MaxCoefI..MaxCoefI

CoefsI == -MaxCoefI..MaxCoefI

\* __abs__: the stream of -x when the first coefficient is negative
AbsStream(cf) == IF Head(cf) < 0 THEN NegStream(cf) ELSE cf

\* ContFrac(v), -ContFrac(v) and abs(ContFrac(v))
HandlesUnaryI ==
    {[val |-> v, cf |-> Euclid(v)] : v \in Rats}
      \cup {[val |-> FracNeg(v), cf |-> NegStream(Euclid(v))] : v \in Rats}
      \cup {[val |-> Fraction(Abs(v[1]), v[2]), cf |-> AbsStream(Euclid(v))] :
              v \in Rats}

\* ContFrac(r).homographic(a, b, c, d) of finite value; the handles of
\* ContFrac(r) op n for a number n are among these
HandlesHomI ==
    {[val |-> Fraction(HNum(i), HDen(i)),
      cf |-> HRun(HStart(Euclid(i.r), i.a, i.b, i.c, i.d))] :
        i \in {j \in [a : CoefsI, b : CoefsI, c : CoefsI, d : CoefsI,
                      r : Rats] : HDen(j) # 0}}

\* the value of a handle whose stream denotes no finite number
Unbounded == <<1, 0>>

\* ContFrac(r).homographic(a, b, 0, 0)
HandlesUnboundedI ==
    {[val |-> Unbounded, cf |-> HRun(HStart(Euclid(r), a, b, 0, 0))] :
        a \in CoefsI, b \in CoefsI, r \in Rats}

InitI ==
    /\ inp \in {[meth |-> m, val |-> k.val, cf |-> k.cf] :
                  m \in {"__int__", "__trunc__"},
                  k \in HandlesUnaryI \cup HandlesHomI
                          \cup HandlesUnboundedI}
    /\ euc = Idle
    /\ hom = Idle
    /\ bih = Idle
    /\ zip = Idle
    /\ res = NoRes
    /\ pc = "call"

\* __int__, lines 301-303: the first coefficient of a new traversal
IntFirst ==
    /\ pc = "call" /\ inp.meth = "__int__" /\ inp.cf # <<>>
    /\ euc' = [a |-> Head(inp.cf), coeff |-> Tail(inp.cf)]
    /\ pc' = "first"
    /\ UNCHANGED <<inp, hom, bih, zip, res>>

\* lines 319-320: the stream is empty
IntEmpty ==
    /\ pc = "call" /\ inp.meth = "__int__" /\ inp.cf = <<>>
    /\ res' = Raise("OverflowError")
    /\ pc' = "done"
    /\ UNCHANGED <<inp, euc, hom, bih, zip>>

\* lines 306-307
IntNonNegative ==
    /\ pc = "first" /\ euc.a >= 0
    /\ res' = Ok(euc.a)
    /\ pc' = "done"
    /\ UNCHANGED <<inp, euc, hom, bih, zip>>

\* lines 309-313: a second coefficient exists
IntNegative ==
    /\ pc = "first" /\ euc.a < 0 /\ euc.coeff # <<>>
    /\ res' = Ok(euc.a + 1)
    /\ euc' = [euc EXCEPT !.coeff = Tail(@)]
    /\ pc' = "done"
    /\ UNCHANGED <<inp, hom, bih, zip>>

\* lines 315-317
IntNegativeInteger ==
    /\ pc = "first" /\ euc.a < 0 /\ euc.coeff = <<>>
    /\ res' = Ok(euc.a)
    /\ pc' = "done"
    /\ UNCHANGED <<inp, euc, hom, bih, zip>>

\* __trunc__: math.trunc(self.as_rational())
TruncMethod ==
    /\ pc = "call" /\ inp.meth = "__trunc__"
    /\ LET r == AsRational(inp.cf)
       IN  res' = IF r.tag = "ok" THEN Ok(Trunc(r.val[1], r.val[2])) ELSE r
    /\ pc' = "done"
    /\ UNCHANGED <<inp, euc, hom, bih, zip>>

NextI ==
    \/ IntFirst \/ IntEmpty \/ IntNonNegative \/ IntNegative
    \/ IntNegativeInteger \/ TruncMethod

SpecI == InitI /\ [][NextI]_vars

\* C15: for a handle of finite value v, built directly or derived by
\* negation, abs or homographic, int(h) and math.trunc(h) both return v
\* truncated toward zero.
C15_IntIsTrunc ==
    (pc = "done" /\ inp.val # Unbounded)
        => res = Ok(Trunc(inp.val[1], inp.val[2]))


(***************************************************************************)
(* Stern-Brocot numerals (stern_brocot.py): homographic(S, a, b, c, d).     *)
(*   inp    the numeral S, a sequence of "L" and "R", and a, b, c, d        *)
(*   hom    homographic's T (a 2x2 matrix, as a pair of rows) and the       *)
(*          symbols of S it has not yet multiplied in                       *)
(*   euc    encode's r, S and T                                             *)
(*   pc     "loop" in homographic's loop, "encode" in encode's, "done"      *)
(* The matrices are int64 arrays; the entries here stay far below 2^63.     *)
(***************************************************************************)
MaxLenS == 2       \* symbols of the numeral S
MaxCoefS == 2      \* a, b, c, d range over -MaxCoefS..MaxCoefS
MaxEnc == 8        \* symbols encode appends before the model leaves it

L == <<<<1, 1>>, <<0, 1>>>>

R == <<<<1, 0>>, <<1, 1>>>>

Identity == <<<<1, 0>>, <<0, 1>>>>

\* the product A @ B of two 2x2 matrices
MatMul(A, B) ==
    <<<<A[1][1] * B[1][1] + A[1][2] * B[2][1],
        A[1][1] * B[1][2] + A[1][2] * B[2][2]>>,
      <<A[2][1] * B[1][1] + A[2][2] * B[2][1],
        A[2][1] * B[1][2] + A[2][2] * B[2][2]>>>>

\* numerator and denominator handed to Fraction by _mediant
MediantNum(T) == T[2][1] + T[2][2]

MediantDen(T) == T[1][1] + T[1][2]

Mediant(T) == Fraction(MediantNum(T), MediantDen(T))

Symbol(s) == IF s = "L" THEN L ELSE R

\* decode: the matrix of the numeral, then its mediant
RECURSIVE DecodeLoop(_, _)
DecodeLoop(S, T) ==
    IF S = <<>> THEN T ELSE DecodeLoop(Tail(S), MatMul(T, Symbol(Head(S))))

Decode(S) == Mediant(DecodeLoop(S, Identity))

\* encode's loop body
EncodeStep(e) ==
    IF FracLt(e.r, Mediant(e.T))
    THEN [e EXCEPT !.S = Append(@, "L"), !.T = MatMul(@, L)]
    ELSE [e EXCEPT !.S = Append(@, "R"), !.T = MatMul(@, R)]

EncodeStart(r) == [r |-> r, S |-> <<>>, T |-> Identity]

\* encode of a positive rational
RECURSIVE EncodeLoop(_)
EncodeLoop(e) == IF e.r = Mediant(e.T) THEN e.S ELSE EncodeLoop(EncodeStep(e))

Encode(r) == EncodeLoop(EncodeStart(r))

RECURSIVE NumeralsOfLen(_)
NumeralsOfLen(k) ==
    IF k = 0 THEN {<<>>}
    ELSE {Append(S, x) : S \in NumeralsOfLen(k - 1), x \in {"L", "R"}}

Numerals == UNION {NumeralsOfLen(k) : k \in 0..MaxLenS}

CoefsS == -MaxCoefS..MaxCoefS

\* homographic, line 65: T = [[c, d], [a, b]]
HomographicStart(i) == [T |-> <<<<i.c, i.d>>, <<i.a, i.b>>>>, S |-> i.S]

InitS ==
    /\ inp \in [S : Numerals, a : CoefsS, b : CoefsS, c : CoefsS, d : CoefsS]
    /\ hom = HomographicStart(inp)
    /\ euc = Idle
    /\ bih = Idle
    /\ zip = Idle
    /\ res = NoRes
    /\ pc = "loop"

\* for s in S: T = T @ L  or  T = T @ R
HomographicSymbol ==
    /\ pc = "loop" /\ hom.S # <<>>
    /\ hom' = [T |-> MatMul(hom.T, Symbol(Head(hom.S))), S |-> Tail(hom.S)]
    /\ UNCHANGED <<inp, euc, bih, zip, res, pc>>

\* return encode(_mediant(T)): Fraction raises on a zero denominator
HomographicMediant ==
    /\ pc = "loop" /\ hom.S = <<>>
    /\ IF MediantDen(hom.T) = 0
       THEN /\ res' = Raise("ZeroDivisionError")
            /\ pc' = "done"
            /\ UNCHANGED euc
       ELSE /\ euc' = EncodeStart(Mediant(hom.T))
            /\ pc' = "encode"
            /\ UNCHANGED res
    /\ UNCHANGED <<inp, hom, bih, zip>>

EncodeSymbol ==
    /\ pc = "encode" /\ euc.r # Mediant(euc.T)
    /\ Len(euc.S) < MaxEnc
    /\ euc' = EncodeStep(euc)
    /\ UNCHANGED <<inp, hom, bih, zip, res, pc>>

EncodeReturn ==
    /\ pc = "encode" /\ euc.r = Mediant(euc.T)
    /\ res' = Ok(euc.S)
    /\ pc' = "done"
    /\ UNCHANGED <<inp, euc, hom, bih, zip>>

NextS ==
    HomographicSymbol \/ HomographicMediant \/ EncodeSymbol \/ EncodeReturn

SpecS == InitS /\ [][NextS]_vars

\* numerator and denominator of (a*x + b)/(c*x + d) for x = decode(S)
SNum(i) == i.a * Decode(i.S)[1] + i.b * Decode(i.S)[2]

SDen(i) == i.c * Decode(i.S)[1] + i.d * Decode(i.S)[2]

\* C16: when (a*x + b)/(c*x + d) is a positive rational for x = decode(S),
\* homographic(S, a, b, c, d) returns encode((a*x + b)/(c*x + d)); the
\* identity transform (1, 0, 0, 1) returns S.
C16_SternBrocotHomographic ==
    (pc = "done" /\ SNum(inp) * SDen(inp) > 0)
        => res = Ok(Encode(Fraction(SNum(inp), SDen(inp))))

============================================================================
